---- MODULE Spec2Model ----
(***************************************************************************)
(* A model of fracture-autodis (tools/fracture-autodis/fracture-autodis.cpp): *)
(* the instruction-census map step.  The model covers loadBinary, the      *)
(* symbol scan (runSymbolsCommand / dumpELFSymbols / dumpCOFFSymbols), the *)
(* name lookup (nameLookupAddr / lookupELFName) and the census loop of main. *)
(*                                                                         *)
(* Four specifications share the variables:                                *)
(*   Spec        one run of main()                                         *)
(*   SpecSymbols runSymbolsCommand applied to a loaded container           *)
(*   SpecLoad    a sequence of runLoadCommand / loadBinary calls           *)
(*   SpecLookup  nameLookupAddr applied to a loaded container              *)
(***************************************************************************)
EXTENDS Integers, Sequences, FiniteSets, TLC

VARIABLES
  pc,              \* position of the process
  InputFileName,   \* cl::opt InputFileName (positional argument)
  fs,              \* the environment: path -> file content, "<stdin>" the standard input
  TripleName,      \* cl::opt TripleName, a global that loadBinary overwrites
  ArchName,        \* cl::opt ArchName
  TempExecutable,  \* OwningPtr<object::ObjectFile> TempExecutable
  MCD, DAS, DEC,   \* the three global handles
  nloads,          \* number of loadBinary calls made so far
  lastLoad,        \* what the last loadBinary call did
  CL,              \* the command line handed to runSymbolsCommand
  Symbols,         \* the vector runSymbolsCommand returned (indices into the symbol table)
  i,               \* loop index of main's for loop
  MF, BI, II, IE,  \* locals of the for body: the graph and the two cursors
  written,         \* every line written so far, in order, with its stream
  exitStatus,      \* the exit status of the process once pc is "exit" or "crashed"
  visited,         \* for-loop iterations executed, in order
  symStart,        \* number of lines written when the current for body began
  live,            \* function graphs returned by disassemble and not yet deleted
  derefEnd,        \* TRUE once a cursor equal to its end position was dereferenced
  lookup           \* the last nameLookupAddr call: its argument and what it returned

vars == <<pc, InputFileName, fs, TripleName, ArchName, TempExecutable, MCD, DAS,
          DEC, nloads, lastLoad, CL, Symbols, i, MF, BI, II, IE, written,
          exitStatus, visited, symStart, live, derefEnd, lookup>>

(***************************************************************************)
(* Bounds of the model.                                                    *)
(***************************************************************************)
MaxSyms == 2
MaxBlocks == 3
MaxInstrs == 2
MaxLoads == 3

(***************************************************************************)
(* uint64_t, kept at its width: four 16-bit limbs, most significant first. *)
(***************************************************************************)
Limb == 2^16

U64(n) == <<0, 0, n \div Limb, n % Limb>>

Zero64 == <<0, 0, 0, 0>>

UnknownAddressOrSize == <<Limb - 1, Limb - 1, Limb - 1, Limb - 1>>

Add64(a, b) ==
  LET s4 == a[4] + b[4]
      s3 == a[3] + b[3] + (s4 \div Limb)
      s2 == a[2] + b[2] + (s3 \div Limb)
      s1 == a[1] + b[1] + (s2 \div Limb)
  IN  <<s1 % Limb, s2 % Limb, s3 % Limb, s4 % Limb>>

Lt64(a, b) ==
  \E k \in 1..4 : a[k] < b[k] /\ \A j \in 1..(k - 1) : a[j] = b[j]

Le64(a, b) == a = b \/ Lt64(a, b)

\* uint64_t passed for an `unsigned` parameter: the low 32 bits are kept.
Trunc32(a) == <<0, 0, a[3], a[4]>>

(***************************************************************************)
(* The environment: files and their contents.                              *)
(*   content  [fmt, arch, sections, symbols]                               *)
(*   section  [name, addr, size]                                           *)
(*   symbol   [name, nameOk, type, typeOk, addr, addrOk]; an Ok field is   *)
(*            FALSE when the accessor (getName, getType, getAddress)       *)
(*            returns an error for that symbol.                            *)
(***************************************************************************)
ELFFormats == {"ELF32LE", "ELF32BE", "ELF64BE", "ELF64LE"}

ObjectFormats == ELFFormats \cup {"COFF"}

Content(fmt, arch, sections, symbols) ==
  [fmt |-> fmt, arch |-> arch, sections |-> sections, symbols |-> symbols]

NoFile == Content("NoFile", "UnknownArch", <<>>, <<>>)

\* The null ObjectFile pointer, and a handle that was never constructed.
NullExe == [id |-> 0, fmt |-> "null", arch |-> "UnknownArch",
            sections |-> <<>>, symbols |-> <<>>]

NullMCD == [id |-> 0, triple |-> <<>>, valid |-> FALSE]

NullDAS == [id |-> 0, mcd |-> 0, exe |-> NullExe]

NullDEC == [id |-> 0, das |-> 0]

\* sys::fs::exists(FileName)
exists(FileName) == FileName \in DOMAIN fs /\ fs[FileName].fmt # "NoFile"

\* object::createBinary(FileName): "-" reads the standard input; the bytes
\* must be readable and of a recognized binary format.
createBinary(FileName) ==
  LET file == IF FileName = "-" THEN fs["<stdin>"]
              ELSE IF FileName \in DOMAIN fs THEN fs[FileName] ELSE NoFile
  IN  [error |-> file.fmt \in {"NoFile", "Unreadable", "Unrecognized"},
       binary |-> file]

\* MemoryBuffer::getFile(FileName): opens the path FileName itself.
getFile(FileName) ==
  LET file == IF FileName \in DOMAIN fs THEN fs[FileName] ELSE NoFile
  IN  [error |-> file.fmt \in {"NoFile", "Unreadable"}, buffer |-> file]

\* Binary::isObject()
isObject(binary) == binary.fmt \in ObjectFormats

\* DummyObjectFile::createDummyObjectFile(MemBuf): the raw bytes, no
\* sections, no symbols, an unknown architecture.
createDummyObjectFile(id, buffer) ==
  [id |-> id, fmt |-> "Unknown", arch |-> "UnknownArch",
   sections |-> <<>>, symbols |-> <<>>]

\* dyn_cast<object::ObjectFile>(Binary.get())
ObjectFileOf(id, binary) ==
  [id |-> id, fmt |-> binary.fmt, arch |-> binary.arch,
   sections |-> binary.sections, symbols |-> binary.symbols]

(***************************************************************************)
(* Target triples.  A triple (and the string TripleName) is the sequence   *)
(* of its '-'-separated components; the empty string is <<>>.              *)
(***************************************************************************)
ArchTypes == {"UnknownArch", "x86_64", "arm"}

\* Triple::getArchTypeName
getArchTypeName(kind) == IF kind = "UnknownArch" THEN "unknown" ELSE kind

\* Triple's parse of its architecture component
parseArch(name) == IF name \in {"x86_64", "arm"} THEN name ELSE "UnknownArch"

\* Triple::getArch
getArch(TT) == IF Len(TT) = 0 THEN "UnknownArch" ELSE parseArch(TT[1])

\* Triple::normalize: the component that parses as an architecture comes first.
normalize(Str) ==
  IF Len(Str) = 0 \/ parseArch(Str[1]) # "UnknownArch" THEN Str
  ELSE IF \E k \in 2..Len(Str) : parseArch(Str[k]) # "UnknownArch"
       THEN LET k == CHOOSE k \in 2..Len(Str) :
                        /\ parseArch(Str[k]) # "UnknownArch"
                        /\ \A j \in 2..(k - 1) : parseArch(Str[j]) = "UnknownArch"
            IN  <<Str[k]>> \o SubSeq(Str, 1, k - 1) \o SubSeq(Str, k + 1, Len(Str))
       ELSE Str

\* Triple::setArchName
setArchName(TT, Str) == <<Str>> \o Tail(TT)

\* Triple::setArch
setArch(TT, kind) == setArchName(TT, getArchTypeName(kind))

\* The targets the MC layer has registered.
RegisteredTargets == {"x86_64", "arm"}

\* new MCDirector(TripleName, ...): valid when the triple names a registered target.
MCDirector(id, Triple) ==
  [id |-> id, triple |-> Triple, valid |-> getArch(Triple) \in RegisteredTargets]

\* new Disassembler(MCD, TempExecutable.get(), ...)
Disassembler(id, mcd, exe) == [id |-> id, mcd |-> mcd.id, exe |-> exe]

\* new Decompiler(DAS, ...)
Decompiler(id, das) == [id |-> id, das |-> das.id]

(***************************************************************************)
(* loadBinary(FileName): the value it returns, the globals it leaves, the  *)
(* diagnostics it writes to errs().                                        *)
(***************************************************************************)
LoadResult(ret, exe, triple, mcd, das, dec, errs, reached, nullRead, srcArch) ==
  [ret |-> ret, TempExecutable |-> exe, TripleName |-> triple,
   MCD |-> mcd, DAS |-> das, DEC |-> dec, errs |-> errs,
   reached |-> reached, nullRead |-> nullRead, srcArch |-> srcArch]

\* Lines 149-157: the container TempExecutable holds after classification.
InstalledExecutable(id, Binary, MemBuf) ==
  IF Binary.error THEN createDummyObjectFile(id, MemBuf.buffer)
  ELSE IF isObject(Binary.binary) THEN ObjectFileOf(id, Binary.binary)
  ELSE TempExecutable

\* Lines 172-181: the triple resolved for this load.
ResolveTriple(exe) ==
  LET TT0 == <<"unknown", "unknown", "unknown">>
      TT1 == IF TripleName = <<>> THEN setArch(TT0, exe.arch)
             ELSE normalize(TripleName)
  IN  IF ArchName # "" THEN setArchName(TT1, ArchName) ELSE TT1

loadBinary(FileName) ==
  LET id == nloads + 1
      Binary == createBinary(FileName)
      MemBuf == getFile(FileName)
      exe == InstalledExecutable(id, Binary, MemBuf)
      srcArch == IF Binary.error THEN "UnknownArch" ELSE Binary.binary.arch
      unknownFormat == IF Binary.error THEN <<"Unknown file format">> ELSE <<>>
      TT == ResolveTriple(exe)
      mcd == MCDirector(id, TT)
      das == Disassembler(id, mcd, exe)
      dec == Decompiler(id, das)
  IN  IF FileName # "-" /\ ~exists(FileName)
      THEN LoadResult("no_such_file_or_directory", TempExecutable, TripleName,
                      MCD, DAS, DEC, <<"No such file or directory">>,
                      FALSE, FALSE, "UnknownArch")
      ELSE IF Binary.error /\ MemBuf.error
      THEN LoadResult("io_error", TempExecutable, TripleName, MCD, DAS, DEC,
                      <<"Unknown file format", "BLAH!">>, FALSE, FALSE, "UnknownArch")
      ELSE IF TripleName = <<>> /\ exe = NullExe
      \* line 174: TempExecutable->getArch() through a null pointer
      THEN LoadResult("crash", exe, TripleName, MCD, DAS, DEC, unknownFormat,
                      TRUE, TRUE, srcArch)
      ELSE LoadResult(IF mcd.valid THEN "success" ELSE "not_supported",
                      exe, TT, mcd, das, dec,
                      unknownFormat \o
                        (IF mcd.valid THEN <<>>
                         ELSE <<"Warning: Unable to initialized LLVM MC API!">>),
                      TRUE, exe = NullExe, srcArch)

Line(stream, text) == [stream |-> stream, text |-> text]

\* The lines of `texts` as written to `stream`.
Lines(stream, texts) == [k \in 1..Len(texts) |-> Line(stream, texts[k])]

(***************************************************************************)
(* Sections and symbols of the container the disassembler is bound to.     *)
(* A SectionRef is an index into the section table; the index one past the *)
(* table is section_end().  A SymbolRef is an index into the symbol table. *)
(***************************************************************************)
section_end(exe) == Len(exe.sections) + 1

\* Disassembler::getSectionByName: the first section of that exact name.
getSectionByName(exe, Name) ==
  IF \E k \in 1..Len(exe.sections) : exe.sections[k].name = Name
  THEN CHOOSE k \in 1..Len(exe.sections) :
         /\ exe.sections[k].name = Name
         /\ \A j \in 1..(k - 1) : exe.sections[j].name # Name
  ELSE section_end(exe)

Contains(sect, Address) ==
  Le64(sect.addr, Address) /\ Lt64(Address, Add64(sect.addr, sect.size))

\* Disassembler::getSectionByAddress: the first section containing the address.
getSectionByAddress(exe, Address) ==
  IF \E k \in 1..Len(exe.sections) : Contains(exe.sections[k], Address)
  THEN CHOOSE k \in 1..Len(exe.sections) :
         /\ Contains(exe.sections[k], Address)
         /\ \A j \in 1..(k - 1) : ~Contains(exe.sections[j], Address)
  ELSE section_end(exe)

\* The integer literals among the arguments the model passes.
IntegerLiterals ==
  [s \in {"0", "0x1000", "0x3000"} |->
     IF s = "0" THEN Zero64 ELSE IF s = "0x1000" THEN U64(4096) ELSE U64(12288)]

\* StringRef::getAsInteger(0, Result): returns true when the string is NOT an
\* integer, and then leaves Result as it was.
getAsInteger(Str, Result) ==
  IF Str \in DOMAIN IntegerLiterals
  THEN [failed |-> FALSE, Result |-> IntegerLiterals[Str]]
  ELSE [failed |-> TRUE, Result |-> Result]

ScanResult(res, outs, errs, crash) ==
  [res |-> res, outs |-> outs, errs |-> errs, crash |-> crash]

\* The test of lines 467-468 on symbol k of the table.
Retained(elf, k, Address, SectSize) ==
  LET sym == elf.symbols[k]
  IN  /\ sym.typeOk
      /\ sym.addrOk
      /\ sym.type = "ST_Function"
      /\ sym.addr # Zero64
      /\ Le64(Address, sym.addr)
      /\ Le64(sym.addr, Add64(Address, SectSize))

\* dumpELFSymbols(elf, Address): Address is declared `unsigned`; SectSize is
\* the size of ".text", and is not initialized when there is no such section.
dumpELFSymbols(elf, AddressArg, uninitSize) ==
  LET Address == Trunc32(AddressArg)
      Sect == getSectionByName(elf, ".text")
      SectSize == IF Sect = section_end(elf) THEN uninitSize
                  ELSE elf.sections[Sect].size
      Keep(k) == Retained(elf, k, Address, SectSize)
      Unreadable(k) == ~elf.symbols[k].typeOk \/ ~elf.symbols[k].addrOk
      Syms == [k \in 1..Len(elf.symbols) |-> k]
      failed == SelectSeq(Syms, Unreadable)
  IN  ScanResult(SelectSeq(Syms, Keep), <<>>,
                 [k \in 1..Len(failed) |-> "error reading file"], FALSE)

\* dumpCOFFSymbols(coff, Address): "TODO: fix this."
dumpCOFFSymbols(coff, Address) == ScanResult(<<>>, <<>>, <<>>, FALSE)

\* runSymbolsCommand(CommandLine).  uninitAddress is the value the local
\* Address holds before it is assigned; endAddress and uninitSize are what a
\* read through section_end() yields.
runSymbolsCommand(CommandLine, uninitAddress, endAddress, uninitSize) ==
  LET Executable == DAS.exe
      SectionNameOrAddress == CommandLine[2]
      parsed == getAsInteger(SectionNameOrAddress, uninitAddress)
      End == section_end(Executable)
      byAddress == IF parsed.failed /\ parsed.Result # Zero64
                   THEN getSectionByAddress(Executable, parsed.Result)
                   ELSE End
      Section == IF byAddress = End
                 THEN getSectionByName(Executable, SectionNameOrAddress)
                 ELSE byAddress
      Text == getSectionByName(Executable, ".text")
      Address == IF Text = End THEN endAddress ELSE Executable.sections[Text].addr
  IN  IF Len(CommandLine) < 2
      THEN ScanResult(<<>>, <<"Did not understand section name or address.">>,
                      <<>>, FALSE)
      ELSE IF Executable = NullExe
      THEN ScanResult(<<>>, <<>>, <<>>, TRUE)
      ELSE IF Section = End
      THEN ScanResult(<<>>, <<>>, <<"Could not find section!">>, FALSE)
      ELSE IF Executable.fmt = "COFF"
      THEN dumpCOFFSymbols(Executable, Address)
      ELSE IF Executable.fmt \in ELFFormats
      THEN dumpELFSymbols(Executable, Address, uninitSize)
      ELSE ScanResult(<<>>, <<>>, <<"Unsupported section type.">>, FALSE)

\* The result of a name lookup: what it returns, what it leaves in the
\* reference parameter Address, and the diagnostics it writes.
LookupResult(retVal, Address, errs, crash) ==
  [retVal |-> retVal, Address |-> Address, errs |-> errs, crash |-> crash]

RECURSIVE lookupLoop(_, _, _, _, _)
\* The second loop of lookupELFName (lines 255-278) from symbol k on, with
\* Address as the passes before left it.
lookupLoop(elf, funcName, k, Address, errs) ==
  IF k > Len(elf.symbols) THEN LookupResult(FALSE, Address, errs, FALSE)
  ELSE LET sym == elf.symbols[k]
           read == IF sym.addr = UnknownAddressOrSize THEN Zero64 ELSE sym.addr
       IN  IF ~sym.nameOk \/ ~sym.addrOk
           THEN lookupLoop(elf, funcName, k + 1, Address,
                           Append(errs, "error reading file"))
           ELSE IF funcName = sym.name
           THEN LookupResult(TRUE, read, errs, FALSE)
           ELSE lookupLoop(elf, funcName, k + 1, read, errs)

\* lookupELFName(elf, funcName, Address): Address = 0, then the loop.
lookupELFName(elf, funcName) == lookupLoop(elf, funcName, 1, Zero64, <<>>)

\* nameLookupAddr(funcName, Address)
nameLookupAddr(funcName) ==
  LET Executable == DAS.exe
  IN  IF Executable = NullExe
      THEN LookupResult(FALSE, Zero64, <<>>, TRUE)
      ELSE IF Executable.fmt = "COFF"
      THEN LookupResult(FALSE, Zero64, <<"COFF is Unsupported section type.">>, FALSE)
      ELSE IF Executable.fmt \in ELFFormats
      THEN lookupELFName(Executable, funcName)
      ELSE LookupResult(FALSE, Zero64, <<"Unsupported section type.">>, FALSE)

(***************************************************************************)
(* Function graphs.  A graph is [null, blocks]: the MachineFunction        *)
(* pointer disassemble returns and its blocks, each a sequence of opcodes. *)
(***************************************************************************)
InstrNames == <<"MOV64rr", "ADD64ri8", "RET">>

\* MCInstrInfo::getName(Opcode)
getName(Opcode) == InstrNames[Opcode]

OpcodeAt(b, j) == (((b - 1) * MaxInstrs + j - 1) % Len(InstrNames)) + 1

\* The graph of n blocks of k instructions each, block e (if any) empty.
GraphOf(n, k, e) ==
  [b \in 1..n |-> IF b = e THEN <<>> ELSE [j \in 1..k |-> OpcodeAt(b, j)]]

NullGraph == [null |-> TRUE, blocks |-> <<>>]

FunctionGraphs ==
  {NullGraph, [null |-> FALSE, blocks |-> <<>>]}
    \cup {[null |-> FALSE, blocks |-> GraphOf(n, k, e)] :
            n \in 1..MaxBlocks, k \in 1..MaxInstrs, e \in 0..MaxBlocks}

\* A cursor into the instructions of block b; [b, size + 1] is instr_end().
Cursor(b, j) == [block |-> b, instr |-> j]

NoCursor == Cursor(0, 0)

\* What a read of instr_begin()/instr_end() through the end-of-graph block
\* iterator can yield.
GarbageCursors == {NoCursor, Cursor(0, 1)}

instr_begin(graph, b) == Cursor(b, 1)

instr_end(graph, b) == Cursor(b, Len(graph.blocks[b]) + 1)

(***************************************************************************)
(* The inputs the model draws from.                                        *)
(***************************************************************************)
Section(name, addr, size) == [name |-> name, addr |-> addr, size |-> size]

Sym(name, nameOk, type, typeOk, addr, addrOk) ==
  [name |-> name, nameOk |-> nameOk, type |-> type, typeOk |-> typeOk,
   addr |-> addr, addrOk |-> addrOk]

TextSection == Section(".text", U64(4096), U64(256))

DataSection == Section(".data", U64(12288), U64(256))

FnMain == Sym("main", TRUE, "ST_Function", TRUE, U64(4112), TRUE)

FnNoName == Sym("", FALSE, "ST_Function", TRUE, U64(4224), TRUE)

ObjVar == Sym("g_var", TRUE, "ST_Data", TRUE, U64(12288), TRUE)

SymbolTables(choices) == UNION {[1..n -> choices] : n \in 0..MaxSyms}

\* Values an uninitialized or out-of-table uint64_t read can yield.
GarbageWords == {Zero64, U64(12304), UnknownAddressOrSize}

Telemetry == "reporter:counter:SkippingTaskCounters,MapProcessedRecords,1\n"

NoLoad ==
  [FileName |-> "", ret |-> "none", reached |-> FALSE, nullRead |-> FALSE,
   srcArch |-> "UnknownArch", resolvedArch |-> "UnknownArch",
   explicitTriple |-> FALSE, explicitArch |-> FALSE]

\* No name was looked up yet.
NoLookup == [funcName |-> "", retVal |-> FALSE, Address |-> Zero64]

\* The state of the process when main (or the first command) starts.
StartOfProcess(start, files, input, triple, arch) ==
  /\ pc = start
  /\ InputFileName = input
  /\ fs = files
  /\ TripleName = triple
  /\ ArchName = arch
  /\ TempExecutable = NullExe
  /\ MCD = NullMCD
  /\ DAS = NullDAS
  /\ DEC = NullDEC
  /\ nloads = 0
  /\ lastLoad = [NoLoad EXCEPT !.explicitTriple = (triple # <<>>),
                               !.explicitArch = (arch # "")]
  /\ CL = <<>>
  /\ Symbols = <<>>
  /\ i = 0
  /\ MF = NullGraph
  /\ BI = 0
  /\ II = NoCursor
  /\ IE = NoCursor
  /\ written = <<>>
  /\ exitStatus = 0
  /\ visited = <<>>
  /\ symStart = 0
  /\ live = 0
  /\ derefEnd = FALSE
  /\ lookup = NoLookup

\* The standard input and, beside it, the file named "-" of the working directory.
StdinAnd(stdin, dash) == [p \in {"<stdin>", "-"} |-> IF p = "<stdin>" THEN stdin ELSE dash]

\* Runs that vary the container, the options and the argument.
LoadVariety ==
  LET stdins ==
        {Content(fmt, arch, <<TextSection, DataSection>>, <<FnMain>>) :
           fmt \in ObjectFormats, arch \in {"x86_64", "UnknownArch"}}
          \cup {Content("Archive", "UnknownArch", <<>>, <<>>),
                Content("Unrecognized", "UnknownArch", <<>>, <<>>),
                Content("Unreadable", "UnknownArch", <<>>, <<>>)}
      dashes(stdin) ==
        IF stdin.fmt = "Unrecognized"
        THEN {NoFile, Content("Unrecognized", "UnknownArch", <<>>, <<>>)}
        ELSE {NoFile}
  IN  {[files |-> StdinAnd(stdin, dash), input |-> input, triple |-> triple, arch |-> arch] :
         stdin \in stdins, dash \in UNION {dashes(c) : c \in stdins},
         input \in {"-", "nosuch.bin"},
         triple \in {<<>>, <<"arm", "unknown", "linux">>},
         arch \in {"", "arm"}}

\* Runs that vary the symbol table of an x86_64 ELF on the standard input.
TableVariety ==
  {[files |-> StdinAnd(Content("ELF64LE", "x86_64", sections, symbols), NoFile),
    input |-> "-", triple |-> <<>>, arch |-> ""] :
     sections \in {<<TextSection, DataSection>>, <<DataSection>>},
     symbols \in SymbolTables({FnMain, FnNoName, ObjVar})}

CensusInputs ==
  {c \in LoadVariety : c.files["-"] = NoFile \/ c.files["<stdin>"].fmt = "Unrecognized"}
    \cup TableVariety

Init == \E c \in CensusInputs : StartOfProcess("main", c.files, c.input, c.triple, c.arch)

(***************************************************************************)
(* main                                                                    *)
(***************************************************************************)
\* The globals after loadBinary(FileName) returned r.
ApplyLoad(FileName, r) ==
  /\ TempExecutable' = r.TempExecutable
  /\ TripleName' = r.TripleName
  /\ MCD' = r.MCD
  /\ DAS' = r.DAS
  /\ DEC' = r.DEC
  /\ nloads' = nloads + 1
  /\ lastLoad' = [lastLoad EXCEPT !.FileName = FileName, !.ret = r.ret,
                                  !.reached = r.reached, !.nullRead = r.nullRead,
                                  !.srcArch = r.srcArch,
                                  !.resolvedArch = getArch(r.TripleName)]

\* A skip path that leaves the loop instead of going on to the next symbol.
ContinueAsBreak == Len(Symbols)

\* The index of the for loop after a `continue` (lines 781, 784, 788, 794, 798).
Continue == i + 1

\* The telemetry line written to the output stream instead.
TelemetryLineOnOuts == Line("out", Telemetry)

\* Line 816: the telemetry line goes to errs().
TelemetryLine == Line("err", Telemetry)

\* Step 1, lines 765-770.
MainLoad ==
  /\ pc = "main"
  /\ LET r == loadBinary("-")
     IN  /\ ApplyLoad("-", r)
         /\ written' = written \o Lines("err", r.errs) \o
                         (IF r.ret \in {"success", "crash"} THEN <<>>
                          ELSE <<Line("err", "Could not open stdin file!")>>)
         /\ pc' = IF r.ret = "success" THEN "symbols"
                  ELSE IF r.ret = "crash" THEN "crashed" ELSE "exit"
         /\ exitStatus' = IF r.ret = "success" THEN 0
                          ELSE IF r.ret = "crash" THEN 139 ELSE (-1) % 256
  /\ UNCHANGED <<lookup, InputFileName, fs, ArchName, CL, Symbols, i, MF, BI, II, IE,
                 visited, symStart, live, derefEnd>>

\* Step 2, lines 772-776.
MainSymbols ==
  /\ pc = "symbols"
  /\ CL' = <<"sym", ".text">>
  /\ \E uninitAddress \in GarbageWords, endAddress \in GarbageWords,
        uninitSize \in GarbageWords :
       LET r == runSymbolsCommand(<<"sym", ".text">>, uninitAddress, endAddress,
                                  uninitSize)
       IN  /\ Symbols' = r.res
           /\ written' = written \o Lines("out", r.outs) \o Lines("err", r.errs)
           /\ pc' = IF r.crash THEN "crashed" ELSE "for"
           /\ exitStatus' = IF r.crash THEN 139 ELSE exitStatus
  /\ i' = 0
  /\ UNCHANGED <<lookup, InputFileName, fs, TripleName, ArchName, TempExecutable, MCD, DAS,
                 DEC, nloads, lastLoad, MF, BI, II, IE, visited, symStart, live,
                 derefEnd>>

\* Step 3, lines 778-800: one pass of the for body up to a `continue` or to
\* the first test of the while loop.  The locals keep what the pass left in
\* them until the next pass declares them again.
MainFor ==
  /\ pc = "for"
  /\ i # Len(Symbols)
  /\ visited' = Append(visited, i)
  /\ symStart' = Len(written)
  /\ LET sym == DAS.exe.symbols[Symbols[i + 1]]
     IN  IF ~sym.addrOk \/ sym.addr = Zero64 \/ ~sym.nameOk
         THEN /\ written' = IF sym.addrOk /\ sym.addr = Zero64 THEN written
                            ELSE Append(written, Line("err", "error reading file"))
              /\ i' = Continue
              /\ MF' = NullGraph
              /\ BI' = 0
              /\ II' = NoCursor
              /\ IE' = NoCursor
              /\ UNCHANGED <<pc, live>>
         ELSE \E graph \in FunctionGraphs :
                /\ MF' = graph
                /\ live' = IF graph.null THEN live ELSE live + 1
                /\ IF graph.null \/ Len(graph.blocks) = 0
                   THEN /\ i' = Continue
                        /\ BI' = 0
                        /\ II' = NoCursor
                        /\ IE' = NoCursor
                        /\ UNCHANGED pc
                   ELSE IF Len(graph.blocks[1]) = 0
                   THEN /\ i' = Continue
                        /\ BI' = 1
                        /\ II' = NoCursor
                        /\ IE' = NoCursor
                        /\ UNCHANGED pc
                   ELSE /\ BI' = 1
                        /\ II' = instr_begin(graph, 1)
                        /\ IE' = instr_end(graph, 1)
                        /\ pc' = "while"
                        /\ UNCHANGED i
                /\ UNCHANGED written
  /\ UNCHANGED <<lookup, InputFileName, fs, TripleName, ArchName, TempExecutable, MCD, DAS,
                 DEC, nloads, lastLoad, CL, Symbols, exitStatus, derefEnd>>

\* The condition of the while loop, line 802.
WhileCondition == BI # Len(MF.blocks) + 1 /\ Len(MF.blocks[BI]) > 0

\* Step 4, lines 802-813: one test of the while condition, then either one
\* pass of its body or deleteFunction and the end of the for body.
MainWhile ==
  /\ pc = "while"
  /\ IF WhileCondition
     THEN /\ written' = Append(written,
                          Line("out", getName(MF.blocks[BI][II.instr]) \o "\t1\n"))
          /\ IF Cursor(II.block, II.instr + 1) = IE
             THEN /\ BI' = BI + 1
                  /\ IF BI + 1 = Len(MF.blocks) + 1
                     THEN /\ II' \in GarbageCursors
                          /\ IE' \in GarbageCursors
                          /\ derefEnd' = TRUE
                     ELSE /\ II' = instr_begin(MF, BI + 1)
                          /\ IE' = instr_end(MF, BI + 1)
                          /\ UNCHANGED derefEnd
             ELSE /\ II' = Cursor(II.block, II.instr + 1)
                  /\ UNCHANGED <<BI, IE, derefEnd>>
          /\ UNCHANGED <<pc, i, live>>
     ELSE /\ live' = live - 1
          /\ i' = i + 1
          /\ pc' = "for"
          /\ UNCHANGED <<written, derefEnd, BI, II, IE>>
  /\ UNCHANGED <<lookup, InputFileName, fs, TripleName, ArchName, TempExecutable, MCD, DAS,
                 DEC, nloads, lastLoad, CL, Symbols, MF, exitStatus, visited,
                 symStart>>

\* Step 5, lines 816-818.
MainReport ==
  /\ pc = "for"
  /\ i = Len(Symbols)
  /\ written' = Append(written, TelemetryLine)
  /\ pc' = "exit"
  /\ exitStatus' = 0
  /\ UNCHANGED <<lookup, InputFileName, fs, TripleName, ArchName, TempExecutable, MCD, DAS,
                 DEC, nloads, lastLoad, CL, Symbols, i, MF, BI, II, IE, visited,
                 symStart, live, derefEnd>>

Next == MainLoad \/ MainSymbols \/ MainFor \/ MainWhile \/ MainReport

Spec == Init /\ [][Next]_vars

(***************************************************************************)
(* Properties of one run of main (specification Spec).                     *)
(***************************************************************************)
IsOut(line) == line.stream = "out"

\* What the run has written to the standard output, in order.
Stdout == SelectSeq(written, IsOut)

\* The lines of the form <mnemonic><TAB>1.
RecordLines == {getName(op) \o "\t1\n" : op \in 1..Len(InstrNames)}

PastLoad == lastLoad.ret = "success"

Finished == pc \in {"exit", "crashed"}

TelemetryCount == Cardinality({k \in 1..Len(written) : written[k].text = Telemetry})

InputReadable == fs["<stdin>"].fmt # "Unreadable"

\* C2, as stated: the exit status is non-zero only when the input bytes
\* cannot be read; every other run ends with status zero and exactly one
\* telemetry record.
C2_NonZeroOnlyWhenUnreadable ==
  Finished =>
    /\ exitStatus # 0 => ~InputReadable
    /\ InputReadable => exitStatus = 0 /\ TelemetryCount = 1

\* C3, as stated: when the path given to the run does not exist, the load
\* fails with NotFound and the run exits non-zero having written no record
\* and no telemetry line.
C3_MissingPathFails ==
  (InputFileName # "-" /\ ~exists(InputFileName)) =>
    /\ \A k \in 1..Len(written) :
         written[k].stream # "out" /\ written[k].text # Telemetry
    /\ Finished =>
         lastLoad.ret = "no_such_file_or_directory" /\ exitStatus # 0

RECURSIVE Flatten(_)
\* The instructions of all blocks, in block order then instruction order.
Flatten(blocks) ==
  IF blocks = <<>> THEN <<>> ELSE Head(blocks) \o Flatten(Tail(blocks))

\* The lines written since the current for body began.
WrittenForSymbol == SubSeq(written, symStart + 1, Len(written))

\* C4, as stated: when the emission loop of a symbol ends, the records
\* written for the symbol are the instructions of all its blocks, one record
\* each, in block-then-instruction order.
C4_EveryInstructionEmitted ==
  (pc = "while" /\ ~WhileCondition) =>
    WrittenForSymbol =
      [k \in 1..Len(Flatten(MF.blocks)) |->
         Line("out", getName(Flatten(MF.blocks)[k]) \o "\t1\n")]

\* The last pass of the for body took a skip path.
Skipped == MF.null \/ Len(MF.blocks) = 0 \/ Len(MF.blocks[1]) = 0

\* C5: once the scan has returned, the symbols are visited one by one in
\* scan order, each once; a symbol that is skipped (unreadable name or
\* address, address 0, no graph, empty graph, empty first block) writes no
\* record; the loop goes on after every symbol and the run ends with status
\* zero and the telemetry line only after all symbols were visited.
C5_SymbolFailuresNeverAbort ==
  (pc \in {"for", "while"} \/ (pc = "exit" /\ PastLoad)) =>
    /\ visited = [k \in 1..Len(visited) |-> k - 1]
    /\ Len(visited) = IF pc = "while" THEN i + 1 ELSE i
    /\ i <= Len(Symbols)
    /\ (pc = "for" /\ i > 0 /\ Skipped) =>
         \A k \in 1..Len(WrittenForSymbol) : WrittenForSymbol[k].stream # "out"
    /\ pc # "exit" => ENABLED (MainFor \/ MainWhile \/ MainReport)
    /\ TelemetryCount = IF pc = "exit" THEN 1 ELSE 0
    /\ pc = "exit" => i = Len(Symbols) /\ exitStatus = 0

\* A run of two symbols: the first was skipped, the second wrote records,
\* then the telemetry line was written.
C5_Witness ==
  /\ pc = "exit"
  /\ PastLoad
  /\ Len(Symbols) = 2
  /\ visited = <<0, 1>>
  /\ \A k \in 1..symStart : written[k].stream # "out"
  /\ \E k \in (symStart + 1)..Len(written) : written[k].stream = "out"
  /\ written[Len(written)].text = Telemetry

\* C8, as stated: the scan of a COFF container reports that the format is
\* not handled, which tells it apart from an ELF container without function
\* symbols, and the run writes no instruction record.
C8_CoffReportsUnsupported ==
  (pc \in {"for", "while", "exit"} /\ PastLoad /\ DAS.exe.fmt = "COFF") =>
    /\ Stdout = <<>>
    /\ \E k \in 1..Len(written) :
         written[k].text \in {"Unsupported section type.",
                              "COFF is Unsupported section type."}

(***************************************************************************)
(* The command handlers runLoadCommand and runSymbolsCommand, driven as a  *)
(* shell would drive them.                                                 *)
(***************************************************************************)
\* runLoadCommand(CommandLine), lines 224-232, for a command line that
\* names a file.
runLoadCommand(CommandLine) ==
  LET FileName == CommandLine[2]
      r == loadBinary(FileName)
  IN  /\ ApplyLoad(FileName, r)
      /\ written' = written \o Lines("err", r.errs) \o
                      (IF r.ret \in {"success", "crash"} THEN <<>>
                       ELSE <<Line("err", "Could not open the file")>>)
      /\ pc' = IF r.ret = "crash" THEN "crashed" ELSE pc
      /\ exitStatus' = IF r.ret = "crash" THEN 139 ELSE exitStatus

\* Sections and symbols of the containers handed to the symbol scan.
HighText == Section(".text", <<0, 1, 0, 4096>>, U64(256))

\* base + size = 2^64 - 1
WideText == Section(".text", U64(4096), <<Limb - 1, Limb - 1, Limb - 1, Limb - 4097>>)

FnEdge == Sym("edge", TRUE, "ST_Function", TRUE, U64(4352), TRUE)

FnBeyond == Sym("beyond", TRUE, "ST_Function", TRUE, U64(4353), TRUE)

FnZero == Sym("zero", TRUE, "ST_Function", TRUE, Zero64, TRUE)

FnUndef == Sym("printf", TRUE, "ST_Function", TRUE, UnknownAddressOrSize, TRUE)

FnHigh == Sym("high", TRUE, "ST_Function", TRUE, <<0, 1, 0, 4112>>, TRUE)

FnData == Sym("thunk", TRUE, "ST_Function", TRUE, U64(12304), TRUE)

SymNoType == Sym("notype", TRUE, "ST_Function", FALSE, U64(4112), TRUE)

SymNoAddr == Sym("noaddr", TRUE, "ST_Function", TRUE, U64(4112), FALSE)

ScanSymbolChoices ==
  {FnMain, FnEdge, FnBeyond, FnZero, FnUndef, FnHigh, FnData, ObjVar, SymNoType,
   SymNoAddr}

ScanSources ==
  {Content("ELF64LE", "x86_64", sections, symbols) :
     sections \in {<<TextSection, DataSection>>, <<HighText, DataSection>>,
                   <<WideText>>, <<DataSection>>},
     symbols \in SymbolTables(ScanSymbolChoices)}
    \cup {Content(fmt, "x86_64", <<TextSection, DataSection>>, symbols) :
            fmt \in ObjectFormats,
            symbols \in SymbolTables({FnMain, FnData, ObjVar})}
    \cup {Content("Unrecognized", "UnknownArch", <<>>, <<>>)}

ScanCommandLines ==
  {<<"sym">>} \cup
    {<<"sym", arg>> : arg \in {".text", ".data", ".bss", "0", "0x1000", "0x3000"}}

ScanFiles(content) == [p \in {"<stdin>", "-", "a.out"} |-> IF p = "a.out" THEN content ELSE NoFile]

InitSymbols ==
  \E content \in ScanSources : StartOfProcess("shell", ScanFiles(content), "-", <<>>, "")

\* The shell runs `load a.out`.
SymbolsLoad ==
  /\ pc = "shell"
  /\ nloads = 0
  /\ runLoadCommand(<<"load", "a.out">>)
  /\ UNCHANGED <<lookup, InputFileName, fs, ArchName, CL, Symbols, i, MF, BI, II, IE,
                 visited, symStart, live, derefEnd>>

\* The shell runs `sym [section name or address]`.
SymbolsScan ==
  /\ pc = "shell"
  /\ nloads = 1
  /\ \E CommandLine \in ScanCommandLines, uninitAddress \in GarbageWords,
        endAddress \in GarbageWords, uninitSize \in GarbageWords :
       LET r == runSymbolsCommand(CommandLine, uninitAddress, endAddress, uninitSize)
       IN  /\ CL' = CommandLine
           /\ Symbols' = r.res
           /\ written' = written \o Lines("out", r.outs) \o Lines("err", r.errs)
           /\ pc' = IF r.crash THEN "crashed" ELSE "scanned"
           /\ exitStatus' = IF r.crash THEN 139 ELSE exitStatus
  /\ UNCHANGED <<lookup, InputFileName, fs, TripleName, ArchName, TempExecutable, MCD, DAS,
                 DEC, nloads, lastLoad, i, MF, BI, II, IE, visited, symStart, live,
                 derefEnd>>

NextSymbols == SymbolsLoad \/ SymbolsScan

SpecSymbols == InitSymbols /\ [][NextSymbols]_vars

\* The files of the load sequences.
LoadFiles ==
  [p \in {"<stdin>", "-", "x86.elf", "arm.elf", "odd.elf", "a.obj", "lib.a",
          "notes.txt", "locked.bin"} |->
     CASE p = "x86.elf" -> Content("ELF64LE", "x86_64", <<TextSection>>, <<FnMain>>)
       [] p = "arm.elf" -> Content("ELF32LE", "arm", <<TextSection>>, <<FnMain>>)
       [] p = "odd.elf" -> Content("ELF64BE", "UnknownArch", <<TextSection>>, <<>>)
       [] p = "a.obj" -> Content("COFF", "x86_64", <<TextSection>>, <<FnMain>>)
       [] p = "lib.a" -> Content("Archive", "UnknownArch", <<>>, <<>>)
       [] p = "notes.txt" -> Content("Unrecognized", "UnknownArch", <<>>, <<>>)
       [] p = "locked.bin" -> Content("Unreadable", "UnknownArch", <<>>, <<>>)
       [] OTHER -> NoFile]

LoadPaths == (DOMAIN LoadFiles \ {"<stdin>", "-"}) \cup {"nosuch.bin"}

InitLoad ==
  \E triple \in {<<>>, <<"arm", "unknown", "linux">>, <<"linux", "arm", "gnu">>},
     arch \in {"", "arm"} :
    StartOfProcess("shell", LoadFiles, "-", triple, arch)

\* The shell runs `load <file>`.
LoadCommand ==
  /\ pc = "shell"
  /\ nloads < MaxLoads
  /\ \E FileName \in LoadPaths : runLoadCommand(<<"load", FileName>>)
  /\ UNCHANGED <<lookup, InputFileName, fs, ArchName, CL, Symbols, i, MF, BI, II, IE,
                 visited, symStart, live, derefEnd>>

NextLoad == LoadCommand

SpecLoad == InitLoad /\ [][NextLoad]_vars

\* Length of the symbol tables handed to the name lookup.
MaxTable == 3

\* Symbols of the tables the name lookup walks: two definitions of "main",
\* "main" undefined, "main" with an address that cannot be read.
FnMainAgain == Sym("main", TRUE, "ST_Function", TRUE, U64(4128), TRUE)

MainUndef == Sym("main", TRUE, "ST_Function", TRUE, UnknownAddressOrSize, TRUE)

MainNoAddr == Sym("main", TRUE, "ST_Function", TRUE, U64(4144), FALSE)

LookupSymbolChoices == {FnMain, FnMainAgain, MainUndef, MainNoAddr, FnEdge, FnNoName}

LookupSources ==
  {Content(fmt, "x86_64", <<TextSection>>, symbols) :
     fmt \in {"ELF64LE", "ELF32BE"},
     symbols \in UNION {[1..n -> LookupSymbolChoices] : n \in 0..MaxTable}}
    \cup {Content("COFF", "x86_64", <<TextSection>>, <<FnMain>>),
          Content("Unrecognized", "UnknownArch", <<>>, <<>>)}

LookupNames == {"main", "edge", "absent"}

InitLookup ==
  \E content \in LookupSources : StartOfProcess("shell", ScanFiles(content), "-", <<>>, "")

\* The shell runs `load a.out`.
LookupLoad ==
  /\ pc = "shell"
  /\ nloads = 0
  /\ runLoadCommand(<<"load", "a.out">>)
  /\ UNCHANGED <<lookup, InputFileName, fs, ArchName, CL, Symbols, i, MF, BI, II, IE,
                 visited, symStart, live, derefEnd>>

\* A command (decompile, disassemble) looks a function name up.
LookupName ==
  /\ pc = "shell"
  /\ nloads = 1
  /\ \E funcName \in LookupNames :
       LET r == nameLookupAddr(funcName)
       IN  /\ lookup' = [funcName |-> funcName, retVal |-> r.retVal,
                         Address |-> r.Address]
           /\ written' = written \o Lines("err", r.errs)
           /\ pc' = IF r.crash THEN "crashed" ELSE "looked"
           /\ exitStatus' = IF r.crash THEN 139 ELSE exitStatus
  /\ UNCHANGED <<InputFileName, fs, TripleName, ArchName, TempExecutable, MCD, DAS,
                 DEC, nloads, lastLoad, CL, Symbols, i, MF, BI, II, IE, visited,
                 symStart, live, derefEnd>>

NextLookup == LookupLoad \/ LookupName

SpecLookup == InitLookup /\ [][NextLookup]_vars

(***************************************************************************)
(* Properties of the symbol scan (specification SpecSymbols).              *)
(***************************************************************************)
\* a + b does not fit 64 bits.
Overflows(a, b) == Lt64(Add64(a, b), a)

\* base <= a <= base + size, the sum taken without wrapping.
InSection(sect, a) ==
  /\ Le64(sect.addr, a)
  /\ Overflows(sect.addr, sect.size) \/ Le64(a, Add64(sect.addr, sect.size))

\* The symbols of kind function, with an address other than 0, in the
\* address range of sect, in symbol-table order.
FunctionsIn(exe, sect) ==
  LET IsFunctionIn(k) ==
        /\ exe.symbols[k].typeOk
        /\ exe.symbols[k].type = "ST_Function"
        /\ exe.symbols[k].addrOk
        /\ exe.symbols[k].addr # Zero64
        /\ InSection(sect, exe.symbols[k].addr)
  IN  SelectSeq([k \in 1..Len(exe.symbols) |-> k], IsFunctionIn)

HasText(exe) == getSectionByName(exe, ".text") # section_end(exe)

\* C6, as stated: on an ELF container the scan of ".text" returns exactly
\* the function symbols with address # 0 and base <= address <= base + size,
\* in symbol-table order, for every base and size of the section.
C6_ScanReturnsFunctionsOfText ==
  (pc = "scanned" /\ DAS.exe.fmt \in ELFFormats /\ CL = <<"sym", ".text">>
     /\ HasText(DAS.exe)) =>
    Symbols = FunctionsIn(DAS.exe, DAS.exe.sections[getSectionByName(DAS.exe, ".text")])

\* C7, as stated: a symbol whose address is the "unknown address" value is
\* never in the result of the scan, whatever the base and size of the section.
C7_SentinelNeverReturned ==
  (pc = "scanned" /\ CL = <<"sym", ".text">> /\ HasText(DAS.exe)) =>
    \A k \in 1..Len(Symbols) :
      ~(/\ DAS.exe.symbols[Symbols[k]].addrOk
        /\ DAS.exe.symbols[Symbols[k]].addr = UnknownAddressOrSize)

\* The section the argument designates: the section containing it when it
\* is an address, else the section of that exact name.
DesignatedSection(exe, arg) ==
  LET parsed == getAsInteger(arg, Zero64)
      byAddress == IF parsed.failed THEN section_end(exe)
                   ELSE getSectionByAddress(exe, parsed.Result)
  IN  IF byAddress # section_end(exe) THEN byAddress
      ELSE getSectionByName(exe, arg)

\* Every section lies below 2^32.
Fits32(exe) ==
  \A k \in 1..Len(exe.sections) :
    /\ exe.sections[k].addr = Trunc32(exe.sections[k].addr)
    /\ exe.sections[k].size = Trunc32(exe.sections[k].size)

\* C9, as stated: the scan resolves its section from the argument, by
\* address containment first and by exact name second, and filters the
\* symbols against the range of the section so resolved.  Stated for the
\* arguments that designate a section of the container, and the containers
\* whose sections lie below 2^32.
C9_ScanFiltersResolvedSection ==
  (/\ pc = "scanned"
   /\ DAS.exe.fmt \in ELFFormats
   /\ Len(CL) = 2
   /\ Fits32(DAS.exe)
   /\ DesignatedSection(DAS.exe, CL[2]) # section_end(DAS.exe)) =>
    Symbols = FunctionsIn(DAS.exe, DAS.exe.sections[DesignatedSection(DAS.exe, CL[2])])

(***************************************************************************)
(* Properties of sequences of loads (specification SpecLoad).              *)
(***************************************************************************)
\* C10, as stated: with no explicit triple (and no explicit architecture),
\* the architecture resolved by a load is the architecture the container
\* installed by that same load declares.
C10_ArchOfLoadedContainer ==
  (/\ nloads > 0
   /\ ~lastLoad.explicitTriple
   /\ ~lastLoad.explicitArch
   /\ lastLoad.reached
   /\ TempExecutable.id = nloads) =>
    lastLoad.resolvedArch = TempExecutable.arch

\* C11, as stated: after a load that reaches the construction of the decoder
\* handles, the active container is the one installed by that load and the
\* three handles are the ones built by that load, bound to that container;
\* nothing of an earlier load is kept as the active one.
C11_HandlesBoundToThisLoad ==
  (nloads > 0 /\ lastLoad.reached /\ pc # "crashed") =>
    /\ TempExecutable.id = nloads
    /\ MCD.id = nloads
    /\ DAS.id = nloads /\ DAS.mcd = nloads /\ DAS.exe = TempExecutable
    /\ DEC.id = nloads /\ DEC.das = nloads

(***************************************************************************)
(* Properties of the name lookup (specification SpecLookup).               *)
(***************************************************************************)
\* The symbols of the table whose name is funcName, in table order.
Named(exe, funcName) ==
  LET HasName(k) == exe.symbols[k].nameOk /\ exe.symbols[k].name = funcName
  IN  SelectSeq([k \in 1..Len(exe.symbols) |-> k], HasName)

\* C12, as stated: on an ELF container the lookup returns the address of
\* the first symbol of the table with exactly that name, and NotFound when
\* no symbol has the name; no other symbol determines the result.  Where
\* that first symbol has no address to return (it cannot be read, or it is
\* the "unknown address" value) NotFound is accepted as well.
C12_FirstExactMatch ==
  (pc = "looked" /\ DAS.exe.fmt \in ELFFormats) =>
    LET hits == Named(DAS.exe, lookup.funcName)
        first == DAS.exe.symbols[hits[1]]
        Found == lookup.retVal /\ lookup.Address = first.addr
    IN  IF hits = <<>> THEN ~lookup.retVal
        ELSE IF ~first.addrOk THEN ~lookup.retVal
        ELSE IF first.addr = UnknownAddressOrSize THEN Found \/ ~lookup.retVal
        ELSE Found

(***************************************************************************)
(* Properties of the resources of a run (specifications Spec and SpecLoad). *)
(***************************************************************************)
\* C13, as stated: at most one function graph is live at any point of the
\* run, the graph of a symbol is discarded before the for loop moves to the
\* next symbol, on the skip paths too, and none is live once the telemetry
\* line is written.
C13_GraphsDiscarded ==
  /\ live <= 1
  /\ pc \in {"for", "exit"} => live = 0

\* C14, as stated: the emission loop never dereferences the block cursor
\* when it is at the end of the graph, nor the instruction cursor when it is
\* at the end of its block.
C14_NoDerefAtEnd == ~derefEnd

\* C15, as stated: whenever loadBinary gets to target resolution, a
\* container is installed: the handle it reads is not null.
C15_ContainerInstalled ==
  (nloads > 0 /\ lastLoad.reached) => ~lastLoad.nullRead /\ TempExecutable # NullExe

====
